---- MODULE Spec2Model ----
(***************************************************************************)
(* quanta: the Instant timestamp type (src/src/instant.rs) and the Mock    *)
(* clock with its thread-local active register (src/src/mock.rs).          *)
(*                                                                         *)
(* u64 quantities are kept with their wrap-around width, scaled down to    *)
(* U64Bits bits.  A std::time::Duration is kept as its two fields          *)
(* (secs: u64, nanos < NanosPerSec), so that its nanosecond count          *)
(* (a u128 in the code) can exceed the u64 range as it can in the code.    *)
(*                                                                         *)
(* Two specifications:                                                     *)
(*   Spec         the mock clock, the recent-time cache, Instant::recent   *)
(*   SpecInstant  the Instant arithmetic, applied to enumerated inputs     *)
(***************************************************************************)
EXTENDS Integers, FiniteSets, Sequences, TLC

\* ------------------------------------------------------------- bounds
U64Bits == 3
NanosPerSec == 3
MaxCalls == 4

Modulus == 2 ^ U64Bits
U64 == 0 .. (Modulus - 1)
U64Max == Modulus - 1

Threads == {1, 2}
NThreads == Cardinality(Threads)
\* Register identities: one default register per thread (mock.rs:45), then
\* one per Mock::new call (mock.rs:50).
RegIds == 1 .. (NThreads + MaxCalls)
DefaultReg(t) == t

\* std::time::Duration: whole seconds and sub-second nanoseconds.
Durations == [secs : U64, nanos : 0 .. (NanosPerSec - 1)]
\* Duration::as_nanos(): u128, never truncated.
AsNanos(d) == d.secs * NanosPerSec + d.nanos
\* Duration::from_nanos(n: u64).
FromNanos(n) == [secs |-> n \div NanosPerSec, nanos |-> n % NanosPerSec]
\* `x as u64` of a u128: keeps the low 64 bits.
AsU64(x) == x % Modulus

\* Values the upkeep thread publishes into GLOBAL_RECENT.
Published == {1, U64Max}

VARIABLES
    GLOBAL_RECENT,  \* crate::GLOBAL_RECENT, the process-wide recent-time cache
    CURRENT_MOCK,   \* thread -> register held by the thread-local slot
    offset,         \* register -> value of its AtomicU64 (0 once freed)
    live,           \* registers whose Arc strong count is > 0
    held,           \* thread -> register -> number of Mock handles it owns
    mocksOf,        \* history: thread -> registers of the Mocks it created, in order
    net,            \* history: register -> sum of increments - sum of decrements
    nCalls,         \* history: number of state-changing calls so far
    last,           \* the call that has just completed and what it returned
    build,          \* SpecInstant: "debug" (overflow checks) or "release"
    inst,           \* SpecInstant: the Instant the program holds
    res             \* SpecInstant: the arithmetic call just completed

mockVars == <<GLOBAL_RECENT, CURRENT_MOCK, offset, live, held, mocksOf, net,
              nCalls, last>>
instVars == <<build, inst, res>>
vars == <<GLOBAL_RECENT, CURRENT_MOCK, offset, live, held, mocksOf, net,
          nCalls, last, build, inst, res>>

RECURSIVE SumOver(_, _)
SumOver(S, f) ==
    IF S = {} THEN 0
    ELSE LET x == CHOOSE y \in S : TRUE
         IN  f[x] + SumOver(S \ {x}, f)

\* ------------------------------------------------------ mock.rs: registers
HandleCount(h, r) == SumOver(Threads, [t \in Threads |-> h[t][r]])
NMocks == SumOver(Threads, [t \in Threads |-> Len(mocksOf[t])])

\* A slot that does not keep its register alive (a weak reference).
StrongCountHandlesOnly(r, h, cur) == HandleCount(h, r)
\* Arc<AtomicU64> strong count: the Mock handles and the thread-local slots.
StrongCount(r, h, cur) ==
    HandleCount(h, r) + Cardinality({t \in Threads : cur[t] = r})

\* The registers still allocated once the references are h and cur.
Reclaim(regs, h, cur) == {r \in regs : StrongCount(r, h, cur) > 0}

\* A register store after allocation/deallocation: freed memory reads as 0.
Surviving(f, lv) == [r \in RegIds |-> IF r \in lv THEN f[r] ELSE 0]

\* A process-wide slot instead of a thread-local one.
InstallGlobal(cur, t, r) == [u \in Threads |-> r]
\* A slot that keeps the first Mock of the thread.
InstallOnce(cur, t, r) == IF cur[t] = DefaultReg(t) THEN [cur EXCEPT ![t] = r] ELSE cur
\* CURRENT_MOCK.with(|current| *current.borrow_mut() = offset.clone())
Install(cur, t, r) == [cur EXCEPT ![t] = r]

\* A saturating update instead of a wrapping one.
FetchAddSaturating(old, n) == IF old + n > U64Max THEN U64Max ELSE old + n
\* AtomicU64::fetch_add: wrapping.
FetchAdd(old, n) == (old + n) % Modulus
\* AtomicU64::fetch_sub: wrapping.
FetchSub(old, n) == (old - n + Modulus) % Modulus

\* Duration::MAX, whose nanosecond count exceeds the u64 range.
DurationMax == [secs |-> U64Max, nanos |-> NanosPerSec - 1]
\* An amount handed to increment/decrement: a raw u64 or a Duration.
Amounts ==
    [kind : {"u64"}, n : {1, U64Max}]
        \cup [kind : {"duration"}, d : {FromNanos(2), DurationMax}]
\* IntoNanoseconds::into_nanos: a raw u64 is itself, a Duration is
\* `as_nanos() as u64`.
IntoNanos(a) == IF a.kind = "duration" THEN AsU64(AsNanos(a.d)) ELSE a.n

\* Mock::value()
MockValue(r) == offset[r]

\* Mock::recent(): the value of the calling thread's active register.  The
\* try_with error arm (thread-local already destroyed) is not reachable
\* while the thread runs, which is the span modelled here.
MockRecent(t) == offset[CURRENT_MOCK[t]]

\* The mock consulted before the cache.
InstantRecentMockFirst(t) ==
    IF CURRENT_MOCK[t] # DefaultReg(t) THEN MockRecent(t) ELSE GLOBAL_RECENT
\* Instant::recent()
InstantRecent(t) ==
    IF GLOBAL_RECENT # 0 THEN GLOBAL_RECENT ELSE MockRecent(t)

Call(op, t, r, ret) == [op |-> op, t |-> t, reg |-> r, ret |-> ret]

\* Thread start: each thread-local slot holds its own default register of
\* value 0 (mock.rs:45); GLOBAL_RECENT is unset.
MockInit ==
    /\ GLOBAL_RECENT = 0
    /\ CURRENT_MOCK = [t \in Threads |-> DefaultReg(t)]
    /\ offset = [r \in RegIds |-> 0]
    /\ live = {DefaultReg(t) : t \in Threads}
    /\ held = [t \in Threads |-> [r \in RegIds |-> 0]]
    /\ mocksOf = [t \in Threads |-> <<>>]
    /\ net = [r \in RegIds |-> 0]
    /\ nCalls = 0
    /\ last = Call("init", 0, 0, 0)

NoCall == [op |-> "init", self |-> 0, arg |-> 0, out |-> [tag |-> "None"]]

Init ==
    /\ MockInit
    /\ build = "debug"
    /\ inst = 0
    /\ res = NoCall

\* Mock::new() on thread t.
MockNew(t) ==
    /\ nCalls < MaxCalls
    /\ LET r == NThreads + NMocks + 1
           cur == Install(CURRENT_MOCK, t, r)
           h == [held EXCEPT ![t][r] = 1]
           lv == Reclaim(live \cup {r}, h, cur)
       IN  /\ CURRENT_MOCK' = cur
           /\ held' = h
           /\ live' = lv
           /\ offset' = Surviving([offset EXCEPT ![r] = 0], lv)
           /\ mocksOf' = [mocksOf EXCEPT ![t] = Append(@, r)]
           /\ last' = Call("new", t, r, 0)
    /\ nCalls' = nCalls + 1
    /\ UNCHANGED <<GLOBAL_RECENT, net, instVars>>

\* #[derive(Clone)] on Mock: Arc::clone, one more handle on the same register
\* r.  The clone is owned by thread u (a Mock is Send: it may be moved to
\* another thread).
MockClone(t, r, u) ==
    /\ held[t][r] > 0
    /\ nCalls < MaxCalls
    /\ held' = [held EXCEPT ![u][r] = @ + 1]
    /\ last' = Call("clone", t, r, 0)
    /\ nCalls' = nCalls + 1
    /\ UNCHANGED <<GLOBAL_RECENT, CURRENT_MOCK, offset, live, mocksOf, net,
                   instVars>>

\* Dropping a Mock handle: Arc::drop.
MockDrop(t, r) ==
    /\ held[t][r] > 0
    /\ nCalls < MaxCalls
    /\ LET h == [held EXCEPT ![t][r] = @ - 1]
           lv == Reclaim(live, h, CURRENT_MOCK)
       IN  /\ held' = h
           /\ live' = lv
           /\ offset' = Surviving(offset, lv)
    /\ last' = Call("drop", t, r, 0)
    /\ nCalls' = nCalls + 1
    /\ UNCHANGED <<GLOBAL_RECENT, CURRENT_MOCK, mocksOf, net, instVars>>

\* Mock::increment(amount) through a handle thread t owns on register r.
Increment(t, r, a) ==
    /\ held[t][r] > 0
    /\ nCalls < MaxCalls
    /\ offset' = [offset EXCEPT ![r] = FetchAdd(@, IntoNanos(a))]
    /\ net' = [net EXCEPT ![r] = @ + IntoNanos(a)]
    /\ nCalls' = nCalls + 1
    /\ last' = Call("increment", t, r, 0)
    /\ UNCHANGED <<GLOBAL_RECENT, CURRENT_MOCK, live, held, mocksOf, instVars>>

\* Mock::decrement(amount).
Decrement(t, r, a) ==
    /\ held[t][r] > 0
    /\ nCalls < MaxCalls
    /\ offset' = [offset EXCEPT ![r] = FetchSub(@, IntoNanos(a))]
    /\ net' = [net EXCEPT ![r] = @ - IntoNanos(a)]
    /\ nCalls' = nCalls + 1
    /\ last' = Call("decrement", t, r, 0)
    /\ UNCHANGED <<GLOBAL_RECENT, CURRENT_MOCK, live, held, mocksOf, instVars>>

\* Mock::value().
Value(t, r) ==
    /\ held[t][r] > 0
    /\ last' = Call("value", t, r, MockValue(r))
    /\ UNCHANGED <<GLOBAL_RECENT, CURRENT_MOCK, offset, live, held, mocksOf,
                   net, nCalls, instVars>>

\* Instant::recent() called on thread t.
Recent(t) ==
    /\ last' = Call("recent", t, CURRENT_MOCK[t], InstantRecent(t))
    /\ UNCHANGED <<GLOBAL_RECENT, CURRENT_MOCK, offset, live, held, mocksOf,
                   net, nCalls, instVars>>

\* The upkeep thread stores a fresh reading into GLOBAL_RECENT.
Upkeep(v) ==
    /\ v > GLOBAL_RECENT
    /\ nCalls < MaxCalls
    /\ GLOBAL_RECENT' = v
    /\ last' = Call("upkeep", 0, 0, v)
    /\ nCalls' = nCalls + 1
    /\ UNCHANGED <<CURRENT_MOCK, offset, live, held, mocksOf, net, instVars>>

Next ==
    \/ \E t \in Threads : MockNew(t)
    \/ \E t \in Threads, r \in RegIds, u \in Threads : MockClone(t, r, u)
    \/ \E t \in Threads, r \in RegIds : MockDrop(t, r)
    \/ \E t \in Threads, r \in RegIds, a \in Amounts : Increment(t, r, a)
    \/ \E t \in Threads, r \in RegIds, a \in Amounts : Decrement(t, r, a)
    \/ \E t \in Threads, r \in RegIds : Value(t, r)
    \/ \E t \in Threads : Recent(t)
    \/ \E v \in Published : Upkeep(v)

Spec == Init /\ [][Next]_vars

\* ------------------------------------------------ instant.rs: arithmetic
\* Results: Option<T> is Some(v) / None; a returned value is Ok(v); a panic
\* terminates the calling thread.
Some(v) == [tag |-> "Some", v |-> v]
None == [tag |-> "None"]
Ok(v) == [tag |-> "Ok", v |-> v]
Panic == [tag |-> "Panic"]

\* Option::expect
Expect(o) == IF o.tag = "Some" THEN Ok(o.v) ELSE Panic
\* The tuple constructor Instant(u64).
Instant(n) == n

\* .map(Duration::from_nanos)
MapFromNanos(o) == IF o.tag = "Some" THEN Some(FromNanos(o.v)) ELSE None
\* .map(Instant)
MapInstant(o) == IF o.tag = "Some" THEN Some(Instant(o.v)) ELSE None

\* u64::checked_sub
CheckedSubU64(a, b) == IF b > a THEN None ELSE Some(a - b)
\* u64::checked_add
CheckedAddU64(a, b) == IF a + b > U64Max THEN None ELSE Some(a + b)

\* None as soon as `earlier` is not strictly before self.
CheckedDurationSinceStrict(self, earlier) ==
    IF earlier >= self THEN None ELSE Some(FromNanos(self - earlier))
\* Instant::checked_duration_since
CheckedDurationSince(self, earlier) ==
    MapFromNanos(CheckedSubU64(self, earlier))

\* Instant::duration_since
DurationSince(self, earlier) ==
    Expect(MapFromNanos(CheckedSubU64(self, earlier)))

\* Instant::saturating_duration_since
SaturatingDurationSince(self, earlier) ==
    LET o == CheckedDurationSince(self, earlier)
    IN  IF o.tag = "Some" THEN Ok(o.v) ELSE Ok([secs |-> 0, nanos |-> 0])

\* Instant::checked_add
CheckedAdd(self, duration) ==
    MapInstant(CheckedAddU64(self, AsU64(AsNanos(duration))))

\* A conversion through as_secs() instead of as_nanos().
CheckedSubSecs(self, duration) ==
    MapInstant(CheckedSubU64(self, AsU64(duration.secs)))
\* Instant::checked_sub
CheckedSub(self, duration) ==
    MapInstant(CheckedSubU64(self, AsU64(AsNanos(duration))))

\* impl Add<Duration> for Instant
Add(self, other) == Expect(CheckedAdd(self, other))
\* impl Sub<Duration> for Instant
Sub(self, other) == Expect(CheckedSub(self, other))
\* impl Sub<Instant> for Instant
SubInstant(self, other) == DurationSince(self, other)

\* `a + b` on u64: panics with overflow checks (debug builds), wraps
\* without them (release builds).
PlusU64(a, b, profile) ==
    IF a + b > U64Max
    THEN IF profile = "debug" THEN Panic ELSE Ok((a + b) % Modulus)
    ELSE Ok(a + b)
\* `a - b` on u64, likewise.
MinusU64(a, b, profile) ==
    IF b > a
    THEN IF profile = "debug" THEN Panic ELSE Ok((a - b + Modulus) % Modulus)
    ELSE Ok(a - b)

\* impl AddAssign<Duration> for Instant: the new self.0, or a panic.
AddAssign(self, other, profile) == PlusU64(self, AsU64(AsNanos(other)), profile)
\* impl SubAssign<Duration> for Instant
SubAssign(self, other, profile) == MinusU64(self, AsU64(AsNanos(other)), profile)

Builds == {"debug", "release"}
Panicked == res.out.tag = "Panic"
Done(op, arg, out) == [op |-> op, self |-> inst, arg |-> arg, out |-> out]

\* The inputs: the build profile and the Instant the program starts from.
InitInstant ==
    /\ MockInit
    /\ build \in Builds
    /\ inst \in U64
    /\ res = NoCall

CallDurationSince(earlier) ==
    /\ ~Panicked
    /\ res' = Done("duration_since", earlier, DurationSince(inst, earlier))
    /\ UNCHANGED <<mockVars, build, inst>>

CallCheckedDurationSince(earlier) ==
    /\ ~Panicked
    /\ res' = Done("checked_duration_since", earlier,
                   CheckedDurationSince(inst, earlier))
    /\ UNCHANGED <<mockVars, build, inst>>

CallSaturatingDurationSince(earlier) ==
    /\ ~Panicked
    /\ res' = Done("saturating_duration_since", earlier,
                   SaturatingDurationSince(inst, earlier))
    /\ UNCHANGED <<mockVars, build, inst>>

CallSubInstant(other) ==
    /\ ~Panicked
    /\ res' = Done("suprofileinstant", other, SubInstant(inst, other))
    /\ UNCHANGED <<mockVars, build, inst>>

CallCheckedAdd(d) ==
    /\ ~Panicked
    /\ res' = Done("checked_add", d, CheckedAdd(inst, d))
    /\ UNCHANGED <<mockVars, build, inst>>

CallCheckedSub(d) ==
    /\ ~Panicked
    /\ res' = Done("checked_sub", d, CheckedSub(inst, d))
    /\ UNCHANGED <<mockVars, build, inst>>

CallAdd(d) ==
    /\ ~Panicked
    /\ res' = Done("add", d, Add(inst, d))
    /\ UNCHANGED <<mockVars, build, inst>>

CallSub(d) ==
    /\ ~Panicked
    /\ res' = Done("sub", d, Sub(inst, d))
    /\ UNCHANGED <<mockVars, build, inst>>

\* `inst += d`: self.0 is replaced unless the addition panics.
CallAddAssign(d) ==
    /\ ~Panicked
    /\ LET out == AddAssign(inst, d, build)
       IN  /\ res' = Done("add_assign", d, out)
           /\ inst' = IF out.tag = "Ok" THEN out.v ELSE inst
    /\ UNCHANGED <<mockVars, build>>

\* `inst -= d`
CallSubAssign(d) ==
    /\ ~Panicked
    /\ LET out == SubAssign(inst, d, build)
       IN  /\ res' = Done("suprofileassign", d, out)
           /\ inst' = IF out.tag = "Ok" THEN out.v ELSE inst
    /\ UNCHANGED <<mockVars, build>>

NextInstant ==
    \/ \E e \in U64 : CallDurationSince(e)
    \/ \E e \in U64 : CallCheckedDurationSince(e)
    \/ \E e \in U64 : CallSaturatingDurationSince(e)
    \/ \E e \in U64 : CallSubInstant(e)
    \/ \E d \in Durations : CallCheckedAdd(d)
    \/ \E d \in Durations : CallCheckedSub(d)
    \/ \E d \in Durations : CallAdd(d)
    \/ \E d \in Durations : CallSub(d)
    \/ \E d \in Durations : CallAddAssign(d)
    \/ \E d \in Durations : CallSubAssign(d)

SpecInstant == InitInstant /\ [][NextInstant]_vars

\* ------------------------------------------------------------ properties
Newest(t) == mocksOf[t][Len(mocksOf[t])]
Superseded(t) == {mocksOf[t][i] : i \in 1 .. (Len(mocksOf[t]) - 1)}
Wrap(x) == ((x % Modulus) + Modulus) % Modulus
IsUpdate(c) == c.op \in {"increment", "decrement"}

C2_MockOverridesCache ==
    (last.op = "recent" /\ mocksOf[last.t] # <<>>) =>
        last.ret = MockValue(Newest(last.t))

\* C3: after a second Mock::new on a thread, Instant::recent() there (cache
\* unset) equals the newest mock's value(), and no increment or decrement
\* through a handle of a superseded mock changes what recent() returns there.
C3_SecondMockSupersedes ==
    /\ [](\A t \in Threads :
            (last.op = "recent" /\ last.t = t /\ GLOBAL_RECENT = 0
                /\ Len(mocksOf[t]) >= 2)
            => last.ret = MockValue(Newest(t)))
    /\ [][\A t \in Threads :
            (IsUpdate(last') /\ last'.reg \in Superseded(t))
            => InstantRecent(t)' = InstantRecent(t)]_vars

C3_Witness ==
    /\ last.op = "recent"
    /\ GLOBAL_RECENT = 0
    /\ Len(mocksOf[last.t]) >= 2
    /\ net[mocksOf[last.t][1]] # 0
    /\ net[Newest(last.t)] # 0
    /\ MockValue(mocksOf[last.t][1]) # MockValue(Newest(last.t))

\* C4: Mock::new on one thread leaves every other thread's slot alone;
\* recent() on a thread (cache unset) returns the value of that thread's own
\* newest mock, or 0 if it never created one; an increment or decrement of a
\* register changes no other register.
C4_ThreadsDoNotInterfere ==
    /\ [](last.op = "recent" /\ GLOBAL_RECENT = 0
            => last.ret = IF mocksOf[last.t] = <<>> THEN 0
                          ELSE MockValue(Newest(last.t)))
    /\ [][last'.op = "new"
            => \A u \in Threads \ {last'.t} : CURRENT_MOCK'[u] = CURRENT_MOCK[u]]_vars
    /\ [][IsUpdate(last')
            => \A r \in RegIds \ {last'.reg} : offset'[r] = offset[r]]_vars

C4_Witness ==
    /\ last.op = "recent"
    /\ GLOBAL_RECENT = 0
    /\ \A t \in Threads : mocksOf[t] # <<>>
    /\ \E t \in Threads \ {last.t} :
          /\ MockValue(Newest(t)) # MockValue(Newest(last.t))
          /\ Newest(t) > Newest(last.t)
    /\ last.ret # 0

\* C5: a fresh Mock reads 0, and value() through any handle of a register
\* equals (sum of increments - sum of decrements) mod 2^64 over all the
\* calls made through all its handles on all threads.
C5_SharedRegisterLinearizable ==
    /\ \A r \in RegIds : HandleCount(held, r) > 0 => MockValue(r) = Wrap(net[r])
    /\ last.op = "value" => last.ret = Wrap(net[last.reg])
    /\ last.op = "new" => MockValue(last.reg) = 0

C5_Witness ==
    /\ last.op = "value"
    /\ \A t \in Threads : held[t][last.reg] > 0
    /\ net[last.reg] \notin U64
    /\ last.ret # 0

MathAdd(c) == c.self + AsNanos(c.arg)
MathSub(c) == c.self - AsNanos(c.arg)

\* C6 (as amended): for a <= b, b.duration_since(a) returns the duration of
\* exactly b - a nanoseconds without panicking; a.checked_duration_since(b)
\* is None when a < b and Some(zero duration) when a = b.
C6_DurationSinceOrdered ==
    /\ (res.op = "duration_since" /\ res.arg <= res.self)
        => (res.out.tag = "Ok" /\ AsNanos(res.out.v) = res.self - res.arg)
    /\ (res.op = "checked_duration_since" /\ res.self < res.arg)
        => res.out = None
    /\ (res.op = "checked_duration_since" /\ res.self = res.arg)
        => res.out = Some([secs |-> 0, nanos |-> 0])

C6_Witness ==
    /\ res.op = "checked_duration_since"
    /\ res.self = res.arg
    /\ res.self > 0
    /\ res.out.tag = "Some"

\* C6 (as stated): for a <= b, equality included, b.duration_since(a) is
\* exactly b - a nanoseconds and a.checked_duration_since(b) is None.
C6_Original ==
    /\ (res.op = "duration_since" /\ res.arg <= res.self)
        => (res.out.tag = "Ok" /\ AsNanos(res.out.v) = res.self - res.arg)
    /\ (res.op = "checked_duration_since" /\ res.self <= res.arg)
        => res.out = None

\* C7: checked_add is Some(t + n) when t + n <= 2^64 - 1 and None otherwise,
\* checked_sub is Some(t - n) when n <= t and None otherwise, n being the
\* duration's whole nanosecond count, however large.
C7_CheckedNeverTruncates ==
    /\ res.op = "checked_add"
        => res.out = IF MathAdd(res) <= U64Max THEN Some(MathAdd(res)) ELSE None
    /\ res.op = "checked_sub"
        => res.out = IF MathSub(res) >= 0 THEN Some(MathSub(res)) ELSE None

\* C8: `+`, `-`, `+=`, `-=` panic whenever the result leaves the u64 range,
\* otherwise give the value of the checked form, and never leave a wrapped
\* value in the timestamp.
C8_OperatorsPanicOnOverflow ==
    /\ res.op \in {"add", "add_assign"}
        => IF MathAdd(res) > U64Max THEN res.out = Panic
           ELSE res.out = Ok(MathAdd(res))
    /\ res.op \in {"sub", "sub_assign"}
        => IF MathSub(res) < 0 THEN res.out = Panic
           ELSE res.out = Ok(MathSub(res))
    /\ res.op = "add_assign" => inst = IF res.out = Panic THEN res.self ELSE MathAdd(res)
    /\ res.op = "sub_assign" => inst = IF res.out = Panic THEN res.self ELSE MathSub(res)

\* C9: when t + d does not overflow the u64 nanosecond range, t + d does not
\* panic, (t + d) - d is t and (t + d).checked_sub(d) is Some(t).
C9_AddSubRoundTrip ==
    (res.op = "add" /\ MathAdd(res) <= U64Max) =>
        /\ res.out = Ok(MathAdd(res))
        /\ Sub(res.out.v, res.arg) = Ok(res.self)
        /\ CheckedSub(res.out.v, res.arg) = Some(res.self)

C9_Witness ==
    /\ res.op = "add"
    /\ res.self > 0
    /\ res.arg.secs > 0
    /\ res.arg.nanos > 0
    /\ res.out.tag = "Ok"

====
